---- MODULE Spec2Model ----
(***************************************************************************)
(* Model of the GraphVisualizer component of json-verse-explorer           *)
(* (src/src/components/GraphVisualizer.tsx): the React state of the        *)
(* component, the census (countNodes), the budget thresholds, the          *)
(* hierarchy builder (convertToHierarchy), the toggle handler and the      *)
(* pagination buttons; and of the JsonViewer component                     *)
(* (src/src/components/JsonViewer.tsx): its json prop, the content of its  *)
(* code element and the timers of its chunked render.                      *)
(*                                                                         *)
(* A JSON value is a record tagged by "kind":                              *)
(*   [kind |-> "null"], [kind |-> "bool", b], [kind |-> "num", n],         *)
(*   [kind |-> "str", s], [kind |-> "arr", items : Seq(JSON)],             *)
(*   [kind |-> "obj", entries : Seq(<<key, JSON>>)]  (Object.entries order)*)
(* A display Node is a record whose optional fields are present exactly    *)
(* when the object literal of the source sets them.                        *)
(***************************************************************************)
EXTENDS Integers, Sequences, FiniteSets, TLC

VARIABLES jsonData, currentPage, nodeLimit, totalNodes, expandedNodes, nodesData,
          json, innerHTML, timers

\* the state of GraphVisualizer
graphVars == <<jsonData, currentPage, nodeLimit, totalNodes, expandedNodes, nodesData>>

\* the state of JsonViewer: the json prop, the content of the code element
\* and the renderChunk closures waiting in setTimeout
viewerVars == <<json, innerHTML, timers>>

vars == <<graphVars, viewerVars>>

-----------------------------------------------------------------------------
(* JSON values *)

JNull == [kind |-> "null"]
JBool(b) == [kind |-> "bool", b |-> b]
JNum(n) == [kind |-> "num", n |-> n]
JStr(s) == [kind |-> "str", s |-> s]
JArr(items) == [kind |-> "arr", items |-> items]
JObj(entries) == [kind |-> "obj", entries |-> entries]

\* typeof data === 'object' && data !== null
IsContainer(data) == data.kind \in {"arr", "obj"}

\* Array.isArray(data)
IsArray(data) == data.kind = "arr"

\* !data  (JavaScript falsiness of a parsed JSON value)
Falsy(data) ==
  \/ data.kind = "null"
  \/ data.kind = "bool" /\ data.b = FALSE
  \/ data.kind = "num" /\ data.n = 0
  \/ data.kind = "str" /\ data.s = ""

\* data.length of an array, Object.keys(data).length of an object
Size(data) == IF IsArray(data) THEN Len(data.items) ELSE Len(data.entries)

-----------------------------------------------------------------------------
(* Program constants *)

itemsPerPage == 20
defaultMaxDepth == 2
initialNodeLimit == 100
largeThreshold == 500
mediumThreshold == 200
largeLimit == 50
mediumLimit == 100
smallLimit == 200

-----------------------------------------------------------------------------
(* String conversions *)

Digits == <<"0", "1", "2", "3", "4", "5", "6", "7", "8", "9">>

RECURSIVE NatToString(_)
NatToString(n) ==
  IF n < 10 THEN Digits[n + 1]
  ELSE NatToString(n \div 10) \o Digits[(n % 10) + 1]

\* `${n}` and String(n) for an integer n
NumToString(n) == IF n < 0 THEN "-" \o NatToString(0 - n) ELSE NatToString(n)

\* String(data) for a scalar that is not null
StringOf(data) ==
  CASE data.kind = "num" -> NumToString(data.n)
    [] data.kind = "bool" -> (IF data.b THEN "true" ELSE "false")
    [] data.kind = "str" -> data.s

Min(a, b) == IF a < b THEN a ELSE b

\* data.slice(from, to) on a sequence, 0-based and clipped like Array.slice
Slice(s, from, to) ==
  LET lo == Min(from, Len(s))
      hi == Min(to, Len(s))
  IN IF hi <= lo THEN <<>> ELSE [i \in 1..(hi - lo) |-> s[lo + i]]

RECURSIVE SumRange(_, _, _)
SumRange(s, lo, hi) ==
  IF lo > hi THEN 0
  ELSE IF lo = hi THEN s[lo]
  ELSE LET mid == (lo + hi) \div 2
       IN SumRange(s, lo, mid) + SumRange(s, mid + 1, hi)

\* s.reduce((sum, x) => sum + x, 0) over integers; the sum is split in
\* halves to keep the evaluation shallow, which integer addition allows
SumSeq(s) == SumRange(s, 1, Len(s))

-----------------------------------------------------------------------------
(* countNodes *)

\* safeNumberConversion applied to a number returns it unchanged
safeNumberConversion(value) == value

\* countNodes with the node itself left out of an array's count
RECURSIVE countNodesItemsOnly(_)
countNodesItemsOnly(data) ==
  IF ~IsContainer(data) THEN 1
  ELSE IF IsArray(data)
    THEN SumSeq([i \in 1..Len(data.items) |-> countNodesItemsOnly(data.items[i])])
    ELSE 1 + SumSeq([i \in 1..Len(data.entries) |->
                       countNodesItemsOnly(data.entries[i][2])])

RECURSIVE countNodes(_)
countNodes(data) ==
  IF ~IsContainer(data) THEN 1
  ELSE IF IsArray(data)
    THEN 1 + SumSeq([i \in 1..Len(data.items) |-> countNodes(data.items[i])])
    ELSE 1 + SumSeq([i \in 1..Len(data.entries) |->
                       safeNumberConversion(countNodes(data.entries[i][2]))])

\* the threshold chain with the thresholds themselves counted as above
deriveNodeLimitInclusive(count) ==
  IF count >= largeThreshold THEN largeLimit
  ELSE IF count >= mediumThreshold THEN mediumLimit
  ELSE smallLimit

\* the threshold chain of the build effect
deriveNodeLimit(count) ==
  IF count > largeThreshold THEN largeLimit
  ELSE IF count > mediumThreshold THEN mediumLimit
  ELSE smallLimit

-----------------------------------------------------------------------------
(* convertToHierarchy.  expanded, page and limit are the values of          *)
(* expandedNodes, currentPage and nodeLimit captured by the render whose   *)
(* closure runs the build.                                                 *)

\* nodePath ? `${nodePath}-${key}` : key
currentNodePathOf(nodePath, key) ==
  IF nodePath # "" THEN nodePath \o "-" \o key ELSE key

\* the collapse test with the depth comparison off by one
isCollapsedBelow(expanded, path, currentDepth, maxDepth) ==
  path \notin expanded /\ currentDepth > maxDepth

\* the collapse test without the lookup in the expanded set
isCollapsedByDepthAlone(expanded, path, currentDepth, maxDepth) ==
  currentDepth >= maxDepth

\* !expandedNodes.has(currentNodePath) && currentDepth >= maxDepth
isCollapsedAt(expanded, path, currentDepth, maxDepth) ==
  path \notin expanded /\ currentDepth >= maxDepth

\* the summary string with the object wording used for arrays too
summaryValueAsObject(data) ==
  "Object{" \o NumToString(Size(data)) \o " props}"

\* the summary string of a collapsed placeholder
summaryValue(data) ==
  IF IsArray(data)
    THEN "Array[" \o NumToString(Len(data.items)) \o " items]"
    ELSE "Object{" \o NumToString(Len(data.entries)) \o " props}"

\* sampleData: the whole array, or one page of an array longer than 20
sampleDataOf(items, page) ==
  IF Len(items) > 20
    THEN LET startIdx == page * itemsPerPage
         IN Slice(items, startIdx, startIdx + itemsPerPage)
    ELSE items

\* the name of an array node
arrayName(key, length, page) ==
  LET pageStart == (page * 20) + 1
      pageEnd == Min((page + 1) * 20, length)
  IN key \o (IF length > 20
               THEN " (showing " \o NumToString(pageStart) \o "-"
                    \o NumToString(pageEnd) \o " of "
                    \o NumToString(length) \o ")"
               ELSE "")

\* the key given to the element at position index of sampleData
arrayChildKey(index, page) == NumToString(index)

\* the entries shown with one entry past the budget
shownEntriesInclusive(entries, limit) == Slice(entries, 0, limit + 1)

\* Object.entries(data).slice(0, nodeLimit)
shownEntries(entries, limit) == Slice(entries, 0, limit)

RECURSIVE convertToHierarchy(_, _, _, _, _, _, _, _)
convertToHierarchy(data, key, currentDepth, maxDepth, nodePath, expanded, page, limit) ==
  LET currentNodePath == currentNodePathOf(nodePath, key)
  IN
  IF data.kind = "null" THEN
    [id |-> currentNodePath, name |-> key, value |-> "null"]
  ELSE IF ~IsContainer(data) THEN
    [id |-> currentNodePath, name |-> key, value |-> StringOf(data)]
  ELSE IF isCollapsedAt(expanded, currentNodePath, currentDepth, maxDepth) THEN
    [id |-> currentNodePath, name |-> key, collapsed |-> TRUE,
     originalData |-> data, value |-> summaryValue(data)]
  ELSE IF IsArray(data) THEN
    LET sampleData == sampleDataOf(data.items, page)
    IN [id |-> currentNodePath,
        name |-> arrayName(key, Len(data.items), page),
        originalData |-> data,
        children |-> [i \in 1..Len(sampleData) |->
                        convertToHierarchy(sampleData[i], arrayChildKey(i - 1, page),
                                           currentDepth + 1, maxDepth,
                                           currentNodePath, expanded, page, limit)]]
  ELSE
    LET shown == shownEntries(data.entries, limit)
    IN [id |-> currentNodePath,
        name |-> key,
        originalData |-> data,
        children |-> [i \in 1..Len(shown) |->
                        convertToHierarchy(shown[i][2], shown[i][1],
                                           currentDepth + 1, maxDepth,
                                           currentNodePath, expanded, page, limit)]]

\* convertToHierarchy(jsonData) with the default arguments
buildTree(data, expanded, page, limit) ==
  convertToHierarchy(data, "root", 0, defaultMaxDepth, "", expanded, page, limit)

-----------------------------------------------------------------------------
(* The documents the editor hands to the component *)

Ints(n) == [i \in 1..n |-> JNum(i)]

\* {"a":1,"b":[1,2,3]}
DocScenario ==
  JObj(<< <<"a", JNum(1)>>, <<"b", JArr(Ints(3))>> >>)

\* {"l1":{"l2":{"l3":{"l4":{"l5":1}}}}}
DocDeep ==
  JObj(<< <<"l1", JObj(<< <<"l2", JObj(<< <<"l3", JObj(<< <<"l4",
       JObj(<< <<"l5", JNum(1)>> >>)>> >>)>> >>)>> >>)>> >>)

\* [1, ..., 25]
DocArr25 == JArr(Ints(25))

\* 45 elements; element 40 is an array of 25, element 41 an object holding
\* an array, element 0 an array of 3
DocArr45 ==
  JArr([i \in 1..45 |->
          IF i = 41 THEN JArr(Ints(25))
          ELSE IF i = 42 THEN JObj(<< <<"in", JArr(Ints(2))>> >>)
          ELSE IF i = 1 THEN JArr(Ints(3))
          ELSE JNum(i)])

\* {"m":{"n":[1,2],"e":{},"o":{"q":false},"s":"x"},"t":true,"z":null}
DocNested ==
  JObj(<< <<"m", JObj(<< <<"n", JArr(Ints(2))>>, <<"e", JObj(<<>>)>>,
                         <<"o", JObj(<< <<"q", JBool(FALSE)>> >>)>>,
                         <<"s", JStr("x")>> >>)>>,
          <<"t", JBool(TRUE)>>, <<"z", JNull>> >>)

\* {"a":{"b":{}}, "k1":1, ..., "k150":150}: 153 nodes
DocWide150 ==
  JObj(<< <<"a", JObj(<< <<"b", JObj(<<>>)>> >>)>> >>
       \o [i \in 1..150 |-> <<"k" \o NumToString(i), JNum(i)>>])

\* {"k1":[1], ..., "k120":[120]}: 241 nodes
DocWide120 ==
  JObj([i \in 1..120 |-> <<"k" \o NumToString(i), JArr(<<JNum(i)>>)>>])

\* {"w":{"k1":1,...,"k59":59,"k60":{"x":1}}, "bulk":{"rows":[1,...,520]}}:
\* 585 nodes
DocHuge ==
  JObj(<< <<"w", JObj([i \in 1..60 |->
                   <<"k" \o NumToString(i),
                     IF i = 60 THEN JObj(<< <<"x", JNum(1)>> >>) ELSE JNum(i)>>])>>,
          <<"bulk", JObj(<< <<"rows", JArr(Ints(520))>> >>)>> >>)

\* {"x":{"a-b":{"c":1},"a":{"b":{"c":2}}},"y-0":3,"y":[4]}
DocDash ==
  JObj(<< <<"x", JObj(<< <<"a-b", JObj(<< <<"c", JNum(1)>> >>)>>,
                         <<"a", JObj(<< <<"b", JObj(<< <<"c", JNum(2)>> >>)>> >>)>> >>)>>,
          <<"y-0", JNum(3)>>,
          <<"y", JArr(<<JNum(4)>>)>> >>)

\* {"x-a":1,"x":{"a":{"b":2}}}
DocDashDeep ==
  JObj(<< <<"x-a", JNum(1)>>,
          <<"x", JObj(<< <<"a", JObj(<< <<"b", JNum(2)>> >>)>> >>)>> >>)

\* 50 keys, each an object of 50 keys; all values at depth 2 are numbers but
\* the last, which is {"x":1}: 2552 nodes, and a display tree that is full
\* at every level when the budget is 50
DocFull ==
  JObj([i \in 1..50 |->
          <<"r" \o NumToString(i),
            JObj([j \in 1..50 |->
                    <<"c" \o NumToString(j),
                      IF i = 50 /\ j = 50 THEN JObj(<< <<"x", JNum(1)>> >>)
                      ELSE JNum(j)>>])>>])

Documents ==
  { JNull, JBool(FALSE), JNum(0), JStr(""), JNum(7),
    DocArr25, DocArr45, DocDeep, DocWide150, DocWide120, DocHuge }

-----------------------------------------------------------------------------
(* JsonViewer.  A text is known by its length, the only thing the          *)
(* component reads of it besides its substrings; the content of the code   *)
(* element is the sequence of the substrings written to it, each with the  *)
(* text it was cut from.                                                   *)

\* json.length > 100000: the text is rendered in chunks
largeTextThreshold == 100000

\* the length of a chunk
chunkSize == 50000

Text(length) == [length |-> length]

\* the chunk count rounded down
chunksRoundedDown(length) == length \div chunkSize

\* Math.ceil(json.length / 50000)
chunksOf(length) == (length + chunkSize - 1) \div chunkSize

\* json.substring(start, end), highlighted
Substring(text, start, end) == [text |-> text, start |-> start, end |-> end]

\* codeRef.current: the code element exists unless the render returned the
\* placeholder of `if (!json)`
codeRefCurrent(text) == text.length # 0

\* useState("") in the page, an empty code element, no timer
ViewerInit ==
  /\ json = Text(0)
  /\ innerHTML = <<>>
  /\ timers = <<>>

\* One call of renderChunk in the closure run = [json, chunks, currentChunk],
\* on the content html of the code element of the text now shown: the
\* content it leaves and the timers it schedules.
renderChunk(run, html, shown) ==
  IF run.currentChunk >= run.chunks \/ ~codeRefCurrent(shown)
    THEN [innerHTML |-> html, scheduled |-> <<>>]
    ELSE LET start == run.currentChunk * chunkSize
             end == Min((run.currentChunk + 1) * chunkSize, run.json.length)
             chunk == Substring(run.json, start, end)
         IN [innerHTML |-> IF run.currentChunk = 0 THEN <<chunk>>
                           ELSE Append(html, chunk),
             scheduled |-> <<[run EXCEPT !.currentChunk = run.currentChunk + 1]>>]

\* The parent renders the viewer with another text; the effect of [json]
\* runs.  A code element that is unmounted loses its content.
SetJson(text) ==
  /\ text # json
  /\ json' = text
  /\ IF ~codeRefCurrent(text)
       THEN innerHTML' = <<>> /\ timers' = timers
     ELSE IF text.length > largeTextThreshold
       THEN LET run == [json |-> text, chunks |-> chunksOf(text.length), currentChunk |-> 0]
                done == renderChunk(run, innerHTML, text)
            IN /\ innerHTML' = done.innerHTML
               /\ timers' = timers \o done.scheduled
     ELSE /\ innerHTML' = <<Substring(text, 0, text.length)>>
          /\ timers' = timers
  /\ UNCHANGED graphVars

\* a pending setTimeout(renderChunk, 0) fires
FireTimer(i) ==
  /\ i \in 1..Len(timers)
  /\ LET done == renderChunk(timers[i], innerHTML, json)
     IN /\ innerHTML' = done.innerHTML
        /\ timers' = SubSeq(timers, 1, i - 1) \o SubSeq(timers, i + 1, Len(timers))
                       \o done.scheduled
  /\ UNCHANGED <<json, graphVars>>

-----------------------------------------------------------------------------
(* Component state *)

\* useState<Node | null>(null)
NoTree == [absent |-> TRUE]

\* bound on the number of paths kept in expandedNodes
MaxExpanded == 2

Init ==
  /\ jsonData = JNull
  /\ currentPage = 0
  /\ nodeLimit = initialNodeLimit
  /\ totalNodes = 0
  /\ expandedNodes = {}
  /\ nodesData = NoTree
  /\ ViewerInit

\* The effect with dependencies [jsonData, expandedNodes, currentPage]: it
\* runs in the render that follows the state change, so it reads the new
\* jsonData, expandedNodes and currentPage and the nodeLimit of that render;
\* setNodeLimit takes effect in the next render, which does not re-run it.
BuildEffect ==
  IF Falsy(jsonData')
    THEN UNCHANGED <<totalNodes, nodeLimit, nodesData>>
    ELSE LET count == countNodes(jsonData')
         IN /\ totalNodes' = count
            /\ nodeLimit' = deriveNodeLimit(count)
            /\ nodesData' = buildTree(jsonData', expandedNodes', currentPage', nodeLimit)

\* the parent renders the component with a new jsonData value
Load(doc) ==
  /\ jsonData' = doc
  /\ UNCHANGED <<currentPage, expandedNodes>>
  /\ BuildEffect
  /\ UNCHANGED viewerVars

hasNextPage ==
  /\ ~Falsy(jsonData)
  /\ IsArray(jsonData)
  /\ Len(jsonData.items) > (currentPage + 1) * 20

hasPrevPage == currentPage > 0

\* the component renders its toolbar and svg (no early return)
Rendered == ~Falsy(jsonData)

\* Array.isArray(jsonData) && jsonData.length > 20: the page buttons exist
PageButtonsShown == Rendered /\ IsArray(jsonData) /\ Len(jsonData.items) > 20

NextPage ==
  /\ PageButtonsShown
  /\ hasNextPage
  /\ currentPage' = currentPage + 1
  /\ UNCHANGED <<jsonData, expandedNodes>>
  /\ BuildEffect
  /\ UNCHANGED viewerVars

PrevPage ==
  /\ PageButtonsShown
  /\ hasPrevPage
  /\ currentPage' = currentPage - 1
  /\ UNCHANGED <<jsonData, expandedNodes>>
  /\ BuildEffect
  /\ UNCHANGED viewerVars

\* the update with the new path replacing the set instead of joining it
toggleNodeReplacing(prevExpanded, nodeId) ==
  IF nodeId \in prevExpanded THEN prevExpanded \ {nodeId}
  ELSE {nodeId}

\* the functional update of setExpandedNodes
toggleNode(prevExpanded, nodeId) ==
  IF nodeId \in prevExpanded THEN prevExpanded \ {nodeId}
  ELSE prevExpanded \cup {nodeId}

RECURSIVE NodesOf(_)
\* every node of a display tree, as a set
NodesOf(node) ==
  {node} \cup
  (IF "children" \in DOMAIN node
     THEN UNION {NodesOf(node.children[i]) : i \in 1..Len(node.children)}
     ELSE {})

\* the ids that carry the orange expand button in the drawn tree
ClickableIds ==
  IF Rendered /\ nodesData # NoTree
    THEN {n.id : n \in {m \in NodesOf(nodesData) : "collapsed" \in DOMAIN m}}
    ELSE {}

\* click on the expand button of a drawn node
ToggleNode(nodeId) ==
  /\ nodeId \in ClickableIds
  /\ Cardinality(toggleNode(expandedNodes, nodeId)) <= MaxExpanded
  /\ expandedNodes' = toggleNode(expandedNodes, nodeId)
  /\ UNCHANGED <<jsonData, currentPage>>
  /\ BuildEffect
  /\ UNCHANGED viewerVars

Next ==
  \/ \E doc \in Documents : Load(doc)
  \/ NextPage
  \/ PrevPage
  \/ \E nodeId \in ClickableIds : ToggleNode(nodeId)

Spec == Init /\ [][Next]_vars

-----------------------------------------------------------------------------
(* Properties of the component *)

\* ceil(n / 20)
PageCount(n) == (n + itemsPerPage - 1) \div itemsPerPage

\* a step that hands the component a document
LoadStep == \E doc \in Documents : Load(doc)

\* a step that hands the component a document for which the effect builds
LoadAndBuildStep == \E doc \in Documents : ~Falsy(doc) /\ Load(doc)

\* C1: right after any load, whatever paging and toggling came before,
\* the page is 0 and the expanded set is empty.
C1_LoadResets ==
  [][LoadStep => (currentPage' = 0 /\ expandedNodes' = {})]_vars

\* the non-collapsed object nodes of a tree
ObjectNodes(tree) ==
  {n \in NodesOf(tree) :
     /\ "children" \in DOMAIN n
     /\ "originalData" \in DOMAIN n
     /\ n.originalData.kind = "obj"}

\* every object node shows min(number of keys, budget) children
ObjectsShow(tree, budget) ==
  \A n \in ObjectNodes(tree) :
    Len(n.children) = Min(Len(n.originalData.entries), budget)

\* C2: the tree stored by a load shows, at each object node, min(number of
\* keys, budget derived from the census of the loaded document) children.
C2_BuildUsesDerivedBudget ==
  [][LoadAndBuildStep =>
       ObjectsShow(nodesData', deriveNodeLimit(countNodes(jsonData')))]_vars

\* the root is an array longer than one page
RootPaged == IsArray(jsonData) /\ Len(jsonData.items) > itemsPerPage

\* C4: the page stays inside 0..ceil(L/20)-1 of the current root array (0
\* when the root is not an array longer than 20), next is disabled exactly
\* at the last page and prev exactly at page 0, and the slice of the root
\* array starts before its end.
C4_PageInRange ==
  IF RootPaged
    THEN /\ currentPage \in 0..(PageCount(Len(jsonData.items)) - 1)
         /\ (~hasNextPage <=> currentPage = PageCount(Len(jsonData.items)) - 1)
         /\ (~hasPrevPage <=> currentPage = 0)
         /\ currentPage * itemsPerPage < Len(jsonData.items)
    ELSE currentPage = 0

\* the ids of the collapsed placeholders of a tree
CollapsedIds(tree) ==
  {n.id : n \in {m \in NodesOf(tree) : "collapsed" \in DOMAIN m}}

\* the tree stored after toggleNode(nodeId) has run twice, each run followed
\* by the build effect; limit is the nodeLimit in force at the second build
RoundTripTree(data, expanded, page, limit, nodeId) ==
  buildTree(data, toggleNode(toggleNode(expanded, nodeId), nodeId), page, limit)

\* C6: from the tree shown after a load, toggling a collapsed node in and
\* out again (rebuilding each time) gives back the same tree, with the same
\* placeholder.
C6_ToggleRoundTrip ==
  [][LoadAndBuildStep =>
       \A nodeId \in CollapsedIds(nodesData') :
         \A limit \in {deriveNodeLimit(countNodes(jsonData'))} :
           /\ nodeId \notin expandedNodes'
           /\ RoundTripTree(jsonData', expandedNodes', currentPage', limit, nodeId)
                = nodesData']_vars

-----------------------------------------------------------------------------
(* The builder and the census as functions of their arguments: the state   *)
(* holds one choice of arguments (jsonData, expandedNodes, currentPage,    *)
(* nodeLimit) and the results computed from exactly these (nodesData,      *)
(* totalNodes).                                                            *)

BuildValues ==
  { JNull, JBool(TRUE), JNum(0), JStr("hi"), JArr(<<>>), JObj(<<>>),
    DocScenario, DocDeep, DocNested, DocDash, DocDashDeep, DocArr25, DocArr45,
    DocWide150, DocFull }

\* the values nodeLimit takes
NodeLimits == {initialNodeLimit, largeLimit, mediumLimit, smallLimit}

\* largest page handed to the builder
MaxPage == 2

\* the paths a toggle is tried with: the placeholders of the current tree,
\* the paths already expanded, and paths that expand nothing
TogglePaths ==
  CollapsedIds(nodesData) \cup expandedNodes \cup {"root", "root-a", "root-nowhere"}

Built ==
  /\ nodesData' = buildTree(jsonData', expandedNodes', currentPage', nodeLimit')
  /\ totalNodes' = countNodes(jsonData')

InitBuild ==
  /\ jsonData \in BuildValues
  /\ expandedNodes = {}
  /\ currentPage = 0
  /\ nodeLimit \in NodeLimits
  /\ nodesData = buildTree(jsonData, expandedNodes, currentPage, nodeLimit)
  /\ totalNodes = countNodes(jsonData)
  /\ ViewerInit

BuildWithToggle(nodeId) ==
  /\ Cardinality(toggleNode(expandedNodes, nodeId)) <= MaxExpanded
  /\ expandedNodes' = toggleNode(expandedNodes, nodeId)
  /\ UNCHANGED <<jsonData, currentPage, nodeLimit>>
  /\ Built
  /\ UNCHANGED viewerVars

BuildWithPage(page) ==
  /\ page # currentPage
  /\ currentPage' = page
  /\ UNCHANGED <<jsonData, expandedNodes, nodeLimit>>
  /\ Built
  /\ UNCHANGED viewerVars

BuildWithLimit(limit) ==
  /\ limit # nodeLimit
  /\ nodeLimit' = limit
  /\ UNCHANGED <<jsonData, expandedNodes, currentPage>>
  /\ Built
  /\ UNCHANGED viewerVars

NextBuild ==
  \/ \E nodeId \in TogglePaths : BuildWithToggle(nodeId)
  \/ \E page \in 0..MaxPage : BuildWithPage(page)
  \/ \E limit \in NodeLimits : BuildWithLimit(limit)

SpecBuild == InitBuild /\ [][NextBuild]_vars

-----------------------------------------------------------------------------
(* Properties of the builder and the census *)

RECURSIVE Visit(_, _)
RECURSIVE VisitRange(_, _, _, _)
\* the nodes of a display tree in preorder, each with its depth in the tree
Visit(node, depth) ==
  <<[node |-> node, depth |-> depth]>>
  \o (IF "children" \in DOMAIN node
        THEN VisitRange(node.children, 1, Len(node.children), depth + 1)
        ELSE <<>>)
VisitRange(children, lo, hi, depth) ==
  IF lo > hi THEN <<>>
  ELSE IF lo = hi THEN Visit(children[lo], depth)
  ELSE LET mid == (lo + hi) \div 2
       IN VisitRange(children, lo, mid, depth) \o VisitRange(children, mid + 1, hi, depth)

\* the number of DisplayNodes of the stored tree
NodeCount == Len(Visit(nodesData, 0))

Max(a, b) == IF a > b THEN a ELSE b

RECURSIVE MaxNodes(_, _)
\* 1 + W + W^2 + ... + W^maxDepth with W = max(budget, 20): the size of a
\* tree that is maxDepth deep and W wide at every node
MaxNodes(maxDepth, budget) ==
  IF maxDepth = 0 THEN 1
  ELSE 1 + Max(budget, itemsPerPage) * MaxNodes(maxDepth - 1, budget)

\* C3 (as claimed): whatever the expanded set, one build yields at most
\* MaxNodes(maxDepth, budget) nodes.
C3_BoundWhateverExpanded ==
  NodeCount <= MaxNodes(defaultMaxDepth, nodeLimit)

\* C3 (amended): with the expanded set empty, one build yields at most
\* MaxNodes(maxDepth, budget) nodes, whatever the value and the page.
C3_BoundWhenNothingExpanded ==
  expandedNodes = {} => NodeCount <= MaxNodes(defaultMaxDepth, nodeLimit)

\* a build with nothing expanded that attains the bound
C3_Witness ==
  /\ expandedNodes = {}
  /\ IsContainer(jsonData)
  /\ NodeCount = MaxNodes(defaultMaxDepth, nodeLimit)

\* C5: no two nodes of one built tree have the same id.
C5_DistinctIds ==
  \A visits \in {Visit(nodesData, 0)} :
    Cardinality({visits[i].node.id : i \in 1..Len(visits)}) = Len(visits)

RECURSIVE SubValues(_)
\* a JSON value and every value nested in it
SubValues(data) ==
  {data} \cup
  (IF data.kind = "arr"
     THEN UNION {SubValues(data.items[i]) : i \in 1..Len(data.items)}
   ELSE IF data.kind = "obj"
     THEN UNION {SubValues(data.entries[i][2]) : i \in 1..Len(data.entries)}
   ELSE {})

\* C7 (as claimed): the census is at least 1, and is 1 exactly for scalars
\* and null.
C7_OneIffScalar ==
  /\ totalNodes >= 1
  /\ totalNodes = 1 <=> ~IsContainer(jsonData)
  /\ \A v \in SubValues(jsonData) :
       \A n \in {countNodes(v)} : n >= 1 /\ (n = 1 <=> ~IsContainer(v))

\* C7 (amended): the census is at least 1, and is 1 exactly for scalars,
\* null and empty arrays or objects; a container with at least one element
\* counts more than 1.
C7_OneIffScalarOrEmpty ==
  /\ totalNodes >= 1
  /\ totalNodes = 1 <=> (~IsContainer(jsonData) \/ Size(jsonData) = 0)
  /\ \A v \in SubValues(jsonData) :
       \A n \in {countNodes(v)} :
         n >= 1 /\ (n = 1 <=> (~IsContainer(v) \/ Size(v) = 0))

\* the census of an empty array has been taken
C7_Witness ==
  /\ IsArray(jsonData)
  /\ Len(jsonData.items) = 0
  /\ totalNodes = 1

-----------------------------------------------------------------------------
(* The stored tree set against the raw value, position by position *)

\* stands for "no raw value": a child node with no element behind it
Missing == [kind |-> "missing"]

\* first index (0-based) of the elements an array node shows
SliceStart(length, page) == IF length > itemsPerPage THEN itemsPerPage * page ELSE 0

\* the raw value behind the k-th child of a node whose raw value is raw
ChildRaw(raw, k, page) ==
  IF raw.kind = "arr"
    THEN LET at == SliceStart(Len(raw.items), page) + k
         IN IF at <= Len(raw.items) THEN raw.items[at] ELSE Missing
  ELSE IF raw.kind = "obj"
    THEN IF k <= Len(raw.entries) THEN raw.entries[k][2] ELSE Missing
  ELSE Missing

\* the keys the k-th child may be named by: the entry's key, or the
\* element's index within the page or within the array
ChildKeys(raw, k, page) ==
  IF raw.kind = "arr"
    THEN {NumToString(k - 1), NumToString(SliceStart(Len(raw.items), page) + k - 1)}
  ELSE IF raw.kind = "obj" /\ k <= Len(raw.entries)
    THEN {raw.entries[k][1]}
  ELSE {}

RECURSIVE Positions(_, _, _, _, _)
RECURSIVE PositionsRange(_, _, _, _, _, _)
\* the nodes of a display tree in preorder, each with its depth, the raw
\* value at its position and the keys it may be named by
Positions(node, depth, raw, keys, page) ==
  <<[node |-> node, depth |-> depth, raw |-> raw, keys |-> keys]>>
  \o (IF "children" \in DOMAIN node
        THEN PositionsRange(node.children, 1, Len(node.children), depth + 1, raw, page)
        ELSE <<>>)
PositionsRange(children, lo, hi, depth, raw, page) ==
  IF lo > hi THEN <<>>
  ELSE IF lo = hi
    THEN Positions(children[lo], depth, ChildRaw(raw, lo, page),
                   ChildKeys(raw, lo, page), page)
  ELSE LET mid == (lo + hi) \div 2
       IN PositionsRange(children, lo, mid, depth, raw, page)
          \o PositionsRange(children, mid + 1, hi, depth, raw, page)

\* the positions of the stored tree, read against the current document
TreePositions == Positions(nodesData, 0, jsonData, {"root"}, currentPage)

\* node is what the builder emits for raw: a leaf carrying the string form
\* of a scalar, or a node that keeps the container as originalData
Represents(node, raw) ==
  IF IsContainer(raw)
    THEN "originalData" \in DOMAIN node /\ node.originalData = raw
  ELSE /\ raw # Missing
       /\ DOMAIN node = {"id", "name", "value"}
       /\ node.value = (IF raw.kind = "null" THEN "null" ELSE StringOf(raw))

\* " (showing a-b of L)"
ShowingNote(a, b, length) ==
  " (showing " \o NumToString(a) \o "-" \o NumToString(b) \o " of "
  \o NumToString(length) \o ")"

\* the number of elements of [20p, 20p+20) that lie inside 0..length-1
ClippedCount(length, page) ==
  Max(0, Min(length, itemsPerPage * page + itemsPerPage) - itemsPerPage * page)

\* an array node shows its page of elements and is named accordingly
ArrayNodeOK(node, raw, keys, page) ==
  LET length == Len(raw.items)
      shown == Len(node.children)
  IN IF length > itemsPerPage
       THEN /\ shown = ClippedCount(length, page)
            /\ \A k \in 1..shown :
                 /\ itemsPerPage * page + k <= length
                 /\ Represents(node.children[k], raw.items[itemsPerPage * page + k])
            /\ LET a == itemsPerPage * page + 1
                   b == itemsPerPage * page + shown
               IN /\ a <= b
                  /\ \E key \in keys : node.name = key \o ShowingNote(a, b, length)
       ELSE /\ shown = length
            /\ \A k \in 1..shown : Represents(node.children[k], raw.items[k])
            /\ node.name \in keys

\* C8: every array node of a built tree longer than 20 shows exactly the
\* elements of the slice [20p, 20p+20) clipped to its length and is named
\* with the 1-based inclusive range a-b of the elements shown (a <= b,
\* b-a+1 children) and the length; a shorter array shows all its elements
\* and carries no note.
C8_ArrayWindow ==
  nodesData # NoTree =>
    \A ps \in {TreePositions} :
      \A i \in 1..Len(ps) :
        (IsArray(ps[i].raw) /\ "children" \in DOMAIN ps[i].node)
          => ArrayNodeOK(ps[i].node, ps[i].raw, ps[i].keys, currentPage)

\* C9: a container position of a built tree is a collapsed placeholder
\* exactly when its depth is at least maxDepth and its path is not in the
\* expanded set; otherwise it carries children; no scalar is collapsed.
C9_CollapsedIffDeepAndNotExpanded ==
  \A ps \in {TreePositions} :
    \A i \in 1..Len(ps) :
      /\ ps[i].raw # Missing
      /\ IF IsContainer(ps[i].raw)
           THEN /\ "collapsed" \in DOMAIN ps[i].node
                     <=> (ps[i].depth >= defaultMaxDepth
                          /\ ps[i].node.id \notin expandedNodes)
                /\ "collapsed" \notin DOMAIN ps[i].node
                     => "children" \in DOMAIN ps[i].node
           ELSE "collapsed" \notin DOMAIN ps[i].node

\* a container at depth >= maxDepth whose path was added shows children,
\* next to one that is still a placeholder
C9_Witness ==
  \E ps \in {TreePositions} :
    /\ \E i \in 1..Len(ps) :
         /\ ps[i].depth >= defaultMaxDepth
         /\ ps[i].node.id \in expandedNodes
         /\ "children" \in DOMAIN ps[i].node
         /\ Len(ps[i].node.children) > 0
    /\ \E j \in 1..Len(ps) : "collapsed" \in DOMAIN ps[j].node

\* "Array[n items]" or "Object{n props}"
SummaryOf(raw) ==
  IF raw.kind = "arr"
    THEN "Array[" \o NumToString(Len(raw.items)) \o " items]"
    ELSE "Object{" \o NumToString(Len(raw.entries)) \o " props}"

\* C10: a node that is not collapsed has exactly one of value and children
\* (value for scalars and null, children for containers, empty ones
\* included); a collapsed node has collapsed = true, no children, the
\* summary of its raw value as value and the raw value as originalData.
C10_NodeShapes ==
  \A ps \in {TreePositions} :
    \A i \in 1..Len(ps) :
      LET node == ps[i].node
          raw == ps[i].raw
      IN /\ raw # Missing
         /\ IF "collapsed" \in DOMAIN node
              THEN /\ node.collapsed = TRUE
                   /\ "children" \notin DOMAIN node
                   /\ IsContainer(raw)
                   /\ "value" \in DOMAIN node /\ node.value = SummaryOf(raw)
                   /\ "originalData" \in DOMAIN node /\ node.originalData = raw
              ELSE /\ ("value" \in DOMAIN node) # ("children" \in DOMAIN node)
                   /\ IsContainer(raw) <=> "children" \in DOMAIN node
                   /\ "value" \in DOMAIN node => Represents(node, raw)

\* a tree with a collapsed array, a collapsed object, an expanded empty
\* container and a scalar leaf
C10_Witness ==
  \E ps \in {TreePositions} :
    /\ \E i \in 1..Len(ps) :
         "collapsed" \in DOMAIN ps[i].node /\ ps[i].raw.kind = "arr"
    /\ \E i \in 1..Len(ps) :
         "collapsed" \in DOMAIN ps[i].node /\ ps[i].raw.kind = "obj"
    /\ \E i \in 1..Len(ps) :
         "children" \in DOMAIN ps[i].node /\ Len(ps[i].node.children) = 0
    /\ \E i \in 1..Len(ps) : "value" \in DOMAIN ps[i].node /\ ~IsContainer(ps[i].raw)

-----------------------------------------------------------------------------
(* Paging, expansion and loading in the component *)

\* the paths whose membership in the expanded set a step changes
ToggledPaths == (expandedNodes \ expandedNodes') \cup (expandedNodes' \ expandedNodes)

\* C11: a step that changes the page leaves the expanded set as it was; a
\* step that changes the expanded set leaves the page as it was and changes
\* the membership of exactly one path, the one whose button was drawn.
C11_PagingAndExpansionOrthogonal ==
  [][/\ currentPage' # currentPage => expandedNodes' = expandedNodes
     /\ expandedNodes' # expandedNodes =>
          /\ currentPage' = currentPage
          /\ Cardinality(ToggledPaths) = 1
          /\ ToggledPaths \subseteq ClickableIds]_vars

\* a later page is shown while two paths are expanded
C11_Witness ==
  currentPage > 0 /\ Cardinality(expandedNodes) = 2

\* the id the builder would give the k-th child of an array node if array
\* children were named by their index in the whole array
AbsoluteChildId(node, k, page) ==
  node.id \o "-" \o NumToString(SliceStart(Len(node.originalData.items), page) + k - 1)

\* C13: in every built tree the child of an array node that stands for the
\* element at index i of the array has the path parentPath-i, whatever the
\* page, so a path names the same element on every page.
C13_ArrayChildPathsAbsolute ==
  nodesData # NoTree =>
    \A ps \in {TreePositions} :
      \A i \in 1..Len(ps) :
        (IsArray(ps[i].raw) /\ "children" \in DOMAIN ps[i].node)
          => \A k \in 1..Len(ps[i].node.children) :
               ps[i].node.children[k].id = AbsoluteChildId(ps[i].node, k, currentPage)

\* the tree of a document whose root is null or a scalar
LeafTree(doc) ==
  [id |-> "root", name |-> "root",
   value |-> IF doc.kind = "null" THEN "null" ELSE StringOf(doc)]

\* C16: after a load the stored tree is the tree of the loaded document; for
\* a root that is null or a scalar it is the single leaf "root" carrying
\* "null" or the string form of the scalar.
C16_LoadStoresTreeOfDocument ==
  [][LoadStep =>
       /\ nodesData' # NoTree
       /\ nodesData'.id = "root"
       /\ ~IsContainer(jsonData') => nodesData' = LeafTree(jsonData')
       /\ IsContainer(jsonData') => Represents(nodesData', jsonData')]_vars

\* C20: the drawn tree has an expand button only on collapsed placeholders,
\* a placeholder's path is never in the expanded set, and no step removes a
\* path from the expanded set.
C20_TogglesOnlyAdd ==
  [][/\ ClickableIds \cap expandedNodes = {}
     /\ ClickableIds' \cap expandedNodes' = {}
     /\ expandedNodes \subseteq expandedNodes'
     /\ expandedNodes' # expandedNodes =>
          (expandedNodes' \ expandedNodes) \subseteq ClickableIds]_vars

\* a path has been added and the drawn tree still offers a placeholder
C20_Witness ==
  expandedNodes # {} /\ ClickableIds # {}

-----------------------------------------------------------------------------
(* The budget as a function of the census: the component is handed         *)
(* documents of every census from 1 to MaxCensus, one node more or one     *)
(* node fewer at a time.                                                   *)

\* largest census handed to the build effect
MaxCensus == 520

\* a document of n nodes: an array of n - 1 numbers
DocOfCensus(n) == JArr(Ints(n - 1))

LoadLarger ==
  /\ totalNodes < MaxCensus
  /\ Load(DocOfCensus(totalNodes + 1))

LoadSmaller ==
  /\ totalNodes > 1
  /\ Load(DocOfCensus(totalNodes - 1))

NextBudget ==
  \/ LoadLarger
  \/ LoadSmaller

SpecBudget == Init /\ [][NextBudget]_vars

\* C12: once a census has run, the budget is 50 for a census above 500,
\* 100 for a census above 200 and at most 500, 200 for a census of at most
\* 200, and no smaller census has a smaller budget.
C12_BudgetThresholds ==
  totalNodes > 0 =>
    /\ totalNodes > 500 => nodeLimit = 50
    /\ (totalNodes > 200 /\ totalNodes <= 500) => nodeLimit = 100
    /\ totalNodes <= 200 => nodeLimit = 200
    /\ \A m \in 1..totalNodes : deriveNodeLimit(m) >= nodeLimit

C12_Witness == totalNodes = 501 /\ nodeLimit = 50

-----------------------------------------------------------------------------
(* Object nodes against the entries of their objects *)

-----------------------------------------------------------------------------
(* Where the builder reads the expanded set *)

\* the keyed children the builder descends into, budget and collapse aside
RawChildren(data, page) ==
  IF IsArray(data)
    THEN LET sampleData == sampleDataOf(data.items, page)
         IN [i \in 1..Len(sampleData) |-> <<arrayChildKey(i - 1, page), sampleData[i]>>]
  ELSE IF IsContainer(data) THEN data.entries
  ELSE <<>>

RECURSIVE RawPositions(_, _, _, _, _)
RECURSIVE RawPositionsRange(_, _, _, _, _, _)
\* the positions of a value in preorder, each with the path the builder
\* gives it, its depth and whether it holds a container
RawPositions(data, key, depth, nodePath, page) ==
  LET path == currentNodePathOf(nodePath, key)
      children == RawChildren(data, page)
  IN <<[path |-> path, depth |-> depth, container |-> IsContainer(data)]>>
     \o RawPositionsRange(children, 1, Len(children), depth + 1, path, page)
RawPositionsRange(children, lo, hi, depth, nodePath, page) ==
  IF lo > hi THEN <<>>
  ELSE IF lo = hi
    THEN RawPositions(children[lo][2], children[lo][1], depth, nodePath, page)
  ELSE LET mid == (lo + hi) \div 2
       IN RawPositionsRange(children, lo, mid, depth, nodePath, page)
          \o RawPositionsRange(children, mid + 1, hi, depth, nodePath, page)

\* path designates no position, or designates one above the collapse
\* boundary or one holding a scalar or null
OffBoundary(path, positions) ==
  \/ \A i \in 1..Len(positions) : positions[i].path # path
  \/ \E i \in 1..Len(positions) :
       /\ positions[i].path = path
       /\ (positions[i].depth < defaultMaxDepth \/ ~positions[i].container)

\* every position path designates is off the collapse boundary
OffBoundaryEverywhere(path, positions) ==
  \A i \in 1..Len(positions) :
    positions[i].path = path
      => (positions[i].depth < defaultMaxDepth \/ ~positions[i].container)

\* C17: a build that differs from the previous one only by the membership
\* of a path that designates no position of the value, a position at depth
\* < maxDepth, or a scalar or null, gives the same tree.
C17_ExpandedReadOnlyAtBoundary ==
  [][(jsonData' = jsonData /\ currentPage' = currentPage /\ nodeLimit' = nodeLimit)
       => \A positions \in {RawPositions(jsonData, "root", 0, "", currentPage)} :
            \A path \in ToggledPaths :
              OffBoundary(path, positions) => nodesData' = nodesData]_vars

\* the same for a path none of whose positions is a container at depth
\* >= maxDepth
C17_ExpandedReadOnlyAtBoundaryOfUniquePaths ==
  [][(jsonData' = jsonData /\ currentPage' = currentPage /\ nodeLimit' = nodeLimit)
       => \A positions \in {RawPositions(jsonData, "root", 0, "", currentPage)} :
            \A path \in ToggledPaths :
              OffBoundaryEverywhere(path, positions) => nodesData' = nodesData]_vars

-----------------------------------------------------------------------------
(* The chunked render of JsonViewer *)

\* the texts handed to the viewer reach MaxHalfChunks half chunks, and one
\* character more
MaxHalfChunks == 14

ViewerTexts ==
  {Text((chunkSize \div 2) * k + d) : k \in 0..MaxHalfChunks, d \in {0, 1}}

\* the parent replaces the text while no chunk of the previous one is pending
SetJsonAtRest(text) ==
  /\ timers = <<>>
  /\ SetJson(text)

\* the event loop runs a pending timer
TimerFires == \E i \in 1..Len(timers) : FireTimer(i)

NextViewerAtRest ==
  \/ \E text \in ViewerTexts : SetJsonAtRest(text)
  \/ TimerFires

\* every pending timer is run by the event loop
SpecViewerAtRest == Init /\ [][NextViewerAtRest]_vars /\ WF_vars(TimerFires)

\* the text shown is rendered in chunks
Chunked == json.length > 100000

\* ceil(length / 50000)
ChunkCountOf(length) ==
  IF length % 50000 = 0 THEN length \div 50000 ELSE length \div 50000 + 1

\* the code element holds the first n chunks of the text shown, in order,
\* each once: chunk i runs from 50000 * (i - 1) to 50000 * i, or to the end
\* of the text
HoldsFirstChunks(n) ==
  /\ Len(innerHTML) = n
  /\ \A i \in 1..n :
       innerHTML[i] = [text |-> json, start |-> 50000 * (i - 1),
                       end |-> Min(50000 * i, json.length)]

\* every chunk of the text shown has been written: the content runs from the
\* first character to the last
AllChunksWritten ==
  /\ innerHTML # <<>>
  /\ HoldsFirstChunks(ChunkCountOf(json.length))
  /\ innerHTML[1].start = 0
  /\ innerHTML[Len(innerHTML)].end = json.length

\* the chunks written so far are the first ones, in increasing order, each
\* once, without gap or overlap
ChunksInOrder ==
  Chunked => \E n \in 1..ChunkCountOf(json.length) : HoldsFirstChunks(n)

\* the turn that starts the render writes the first chunk alone, and every
\* later turn appends at most one chunk
OneChunkPerTurn ==
  /\ (json' # json /\ Chunked') => HoldsFirstChunks(1)'
  /\ (json' = json /\ Chunked) => Len(innerHTML') \in {Len(innerHTML), Len(innerHTML) + 1}

\* the render of every chunked text ends: all its chunks are written and no
\* timer is left
RenderEnds ==
  \A text \in ViewerTexts :
    (json = text /\ Chunked) ~> (json = text /\ AllChunksWritten /\ timers = <<>>)

\* C18 as stated: for a text longer than 100000 characters that is not
\* replaced while rendering, the chunked render terminates; the first chunk
\* of 50000 characters is written in the turn that starts the render, each
\* later chunk in a later turn, in increasing order and each once; once the
\* ceil(length / 50000) chunks are written no timer is left to fire; the
\* chunks cover the text without gap or overlap.
C18_NoTimerAfterLastChunk ==
  /\ [](ChunksInOrder)
  /\ []((Chunked /\ AllChunksWritten) => timers = <<>>)
  /\ [][OneChunkPerTurn]_vars
  /\ RenderEnds

\* the timer scheduled after the last chunk writes nothing and schedules
\* nothing
LastTimerIdle ==
  (Chunked /\ AllChunksWritten /\ timers # <<>>)
    => (innerHTML' = innerHTML /\ timers' = <<>>)

\* C18 (amended): the same, except that exactly one timer is left when the
\* last chunk has been written; it fires once, writes nothing and schedules
\* nothing, and then no timer is left.
C18_ChunkedRenderTerminates ==
  /\ [](ChunksInOrder)
  /\ [](Len(timers) <= 1)
  /\ [][OneChunkPerTurn]_vars
  /\ [][LastTimerIdle]_vars
  /\ RenderEnds

C18_Witness ==
  /\ Chunked
  /\ AllChunksWritten
  /\ timers = <<>>
  /\ json.length % 50000 # 0
  /\ Len(innerHTML) >= 4

-----------------------------------------------------------------------------
(* Replacing the text of JsonViewer while chunks are pending *)

\* bound on the renderChunk closures pending at once
MaxTimers == 2

\* an empty text, a short one, and two chunked ones
ReplacementTexts ==
  {Text(0), Text(1), Text(2 * chunkSize + 1), Text(3 * chunkSize + 1)}

\* the parent replaces the text, whatever is pending
SetJsonAnytime(text) ==
  /\ text.length > largeTextThreshold => Len(timers) < MaxTimers
  /\ SetJson(text)

NextViewer ==
  \/ \E text \in ReplacementTexts : SetJsonAnytime(text)
  \/ TimerFires

SpecViewer == Init /\ [][NextViewer]_vars

\* C19: the code element holds substrings of the text now shown only: no
\* chunk of a superseded text is written after the render of the new text
\* has started.
C19_OnlyLatestTextDisplayed ==
  \A i \in 1..Len(innerHTML) : innerHTML[i].text = json

====
